---- MODULE Spec2Model ----
(***************************************************************************)
(* The "trustless" reputation registry of programs/trustless/src/lib.rs:   *)
(* agent accounts, job records backed by a verified token transfer, and    *)
(* payment-weighted feedback.  Every instruction is one atomic step: the   *)
(* account validation of its #[derive(Accounts)] struct, then its handler. *)
(***************************************************************************)
EXTENDS Integers, Sequences, FiniteSets, TLC

\* ------------------------------------------------------------------ bounds

\* The clock sysvar runs over 0..MaxTime.
MaxTime == 1

\* ------------------------------------------------------- program constants

\* require!(rating >= 1 && rating <= 5, ..)
MinRating == 1
MaxRating == 5

\* ------------------------------------------------------------ input domains

Wallets == {"w1", "w2"}
\* The payment references callers name; the explored runs register jobs under
\* those of PaidRefs, and "r2" stays a reference nobody has registered.
Refs == {"r1", "r2"}
PaidRefs == {"r1"}
RegisterUris == {"ipfs://a"}
UpdateUris == {"ipfs://b"}
NoComment == "None"
CommentUris == {NoComment}
\* The ratings callers submit in the explored runs (the range and its two
\* neighbours), and every rating the invariants range over.
Ratings == {MinRating - 1, MinRating, MaxRating, MaxRating + 1}
AllRatings == (MinRating - 1) .. (MaxRating + 2)

TOKEN == "Tokenkeg"
TOKEN_2022 == "Tokenz"
TokenPrograms == {TOKEN, TOKEN_2022}

\* The token accounts on chain: InterfaceAccount<TokenAccount> exposes key,
\* mint and owner.
TokenAccounts ==
    { [key |-> "t1", mint |-> "USDC", owner |-> "w1"],
      [key |-> "t2", mint |-> "USDC", owner |-> "w2"],
      [key |-> "t3", mint |-> "EURC", owner |-> "w2"] }
Pubkeys == Wallets \cup {t.key : t \in TokenAccounts}

\* Instruction payloads a sibling instruction may carry.
PayZero == <<3, 0, 0, 0, 0, 0, 0, 0, 0>>
Pay258 == <<3, 2, 1, 0, 0, 0, 0, 0, 0>>
PayLong == <<3, 5, 0, 0, 0, 0, 0, 0, 0, 7>>
PayShort == <<3, 2, 1>>
PayOpcode == <<12, 2, 1, 0, 0, 0, 0, 0, 0>>
PayEmpty == << >>
TransferPayloads == {PayZero, Pay258, PayLong}
Payloads == TransferPayloads \cup {PayShort, PayOpcode, PayEmpty}

VARIABLES agent_accounts, job_records, feedback_records, now, transferred

\* transferred[w] is the token program's side of the committed register_job
\* transactions: the total amount of their transfer instructions that pay a
\* token account of w.
vars == <<agent_accounts, job_records, feedback_records, now, transferred>>

\* ------------------------------------------------------------------ values

OK == "Ok"

\* f32 values: the quotient num/den kept exact; 0/0 is NaN.
ZeroF32 == [num |-> 0, den |-> 1]
NaN == [num |-> 0, den |-> 0]

RECURSIVE Gcd(_, _)
Gcd(a, b) == IF b = 0 THEN a ELSE Gcd(b, a % b)

\* (total_weighted_rating as f64 / total_weight as f64) as f32
AvgRating(total_weighted_rating, total_weight) ==
    IF total_weight = 0
    THEN IF total_weighted_rating = 0 THEN NaN
         ELSE [num |-> 1, den |-> 0]
    ELSE LET g == Gcd(total_weighted_rating, total_weight)
         IN [num |-> total_weighted_rating \div g, den |-> total_weight \div g]

\* u64::from_le_bytes
RECURSIVE FromLeBytes(_)
FromLeBytes(bytes) ==
    IF bytes = << >> THEN 0 ELSE Head(bytes) + 256 * FromLeBytes(Tail(bytes))

\* Pubkey::find_program_address(seeds): the address is the seeds themselves.
JobAddress(payment_tx) == <<"job", payment_tx>>

\* The sum of weigh[k] over the given keys.
RECURSIVE SumOver(_, _)
SumOver(keys, weigh) ==
    IF keys = {} THEN 0
    ELSE LET k == CHOOSE x \in keys : TRUE
         IN weigh[k] + SumOver(keys \ {k}, weigh)

\* The first error of a sequence of check results, OK when none failed.
RECURSIVE FirstError(_)
FirstError(errs) ==
    IF errs = << >> THEN OK
    ELSE IF Head(errs) # OK THEN Head(errs) ELSE FirstError(Tail(errs))

\* Faulty variant: what a failed instruction wrote is kept.
CommitAlways(err, pre, post) == post

\* A handler's Err(..) aborts the transaction: nothing it wrote is kept.
Commit(err, pre, post) == IF err = OK THEN post ELSE pre

\* --------------------------------------------------------------- the state

Init ==
    /\ agent_accounts = << >>
    /\ job_records = << >>
    /\ feedback_records = << >>
    /\ now = 0
    /\ transferred = [w \in Wallets |-> 0]

\* The clock sysvar advances between transactions.
Tick ==
    /\ now < MaxTime
    /\ now' = now + 1
    /\ UNCHANGED <<agent_accounts, job_records, feedback_records, transferred>>

\* ---------------------------------------------------------- register_agent

\* Faulty variant: the address is taken even when occupied (init_if_needed).
AgentAccountInitIfNeeded(agents, signer) == OK

\* #[account(init, seeds = [b"agent", signer])]: the address must be unused.
AgentAccountInit(agents, signer) ==
    IF signer \in DOMAIN agents THEN "AccountAlreadyInUse" ELSE OK

RegisterAgentExec(agents, t, signer, metadata_uri) ==
    LET err == AgentAccountInit(agents, signer)
        account == [wallet |-> signer,
                    metadata_uri |-> metadata_uri,
                    created_at |-> t,
                    active |-> TRUE,
                    auto_created |-> FALSE,
                    total_weighted_rating |-> 0,
                    total_weight |-> 0,
                    avg_rating |-> ZeroF32,
                    last_update |-> t]
        post == [agents |-> (signer :> account) @@ agents,
                 events |-> << [name |-> "AgentRegistered", wallet |-> signer,
                                metadata_uri |-> metadata_uri] >>]
    IN [err |-> err,
        out |-> Commit(err, [agents |-> agents, events |-> << >>], post)]

RegisterAgent ==
    \E signer \in Wallets, metadata_uri \in RegisterUris :
        LET r == RegisterAgentExec(agent_accounts, now, signer, metadata_uri)
        IN /\ agent_accounts' = r.out.agents
           /\ UNCHANGED <<job_records, feedback_records, now, transferred>>

\* ------------------------------------------- update_agent, deactivate_agent

\* Faulty variant: only has_one is checked, not the seeds nor the signer.
OwnAgentAccountsHasOneOnly(agents, signer, account, wallet) ==
    IF account \notin DOMAIN agents THEN "AccountNotInitialized"
    ELSE IF agents[account].wallet = wallet THEN OK ELSE "UnauthorizedAgent"

\* UpdateAgent / DeactivateAgent: `account` names the wallet whose agent address
\* the caller passes as agent_account, `wallet` the unchecked wallet account.
\* Account<AgentAccount> must hold an agent; then seeds, has_one and the
\* signer's constraint.
OwnAgentAccounts(agents, signer, account, wallet) ==
    IF account \notin DOMAIN agents THEN "AccountNotInitialized"
    ELSE FirstError(<<
        IF account = signer THEN OK ELSE "ConstraintSeeds",
        IF agents[account].wallet = wallet THEN OK ELSE "UnauthorizedAgent",
        IF wallet = signer THEN OK ELSE "ConstraintRaw" >>)

UpdateAgentExec(agents, t, signer, account, wallet, metadata_uri) ==
    LET err == OwnAgentAccounts(agents, signer, account, wallet)
        post == [agents |-> [agents EXCEPT ![account].metadata_uri = metadata_uri,
                                           ![account].last_update = t],
                 events |-> << [name |-> "AgentUpdated",
                                wallet |-> agents[account].wallet,
                                metadata_uri |-> metadata_uri] >>]
    IN [err |-> err,
        out |-> Commit(err, [agents |-> agents, events |-> << >>], post)]

UpdateAgent ==
    \E signer \in Wallets, account \in Wallets, wallet \in Wallets,
       metadata_uri \in UpdateUris :
        LET r == UpdateAgentExec(agent_accounts, now, signer, account, wallet,
                                 metadata_uri)
        IN /\ agent_accounts' = r.out.agents
           /\ UNCHANGED <<job_records, feedback_records, now, transferred>>

\* Faulty variant: the flag is toggled.
DeactivateAgentToggle(agents, t, signer, account, wallet) ==
    LET err == OwnAgentAccounts(agents, signer, account, wallet)
        post == [agents |-> [agents EXCEPT ![account].active = ~agents[account].active,
                                           ![account].last_update = t],
                 events |-> << [name |-> "AgentDeactivated",
                                wallet |-> agents[account].wallet] >>]
    IN [err |-> err,
        out |-> Commit(err, [agents |-> agents, events |-> << >>], post)]

DeactivateAgentExec(agents, t, signer, account, wallet) ==
    LET err == OwnAgentAccounts(agents, signer, account, wallet)
        post == [agents |-> [agents EXCEPT ![account].active = FALSE,
                                           ![account].last_update = t],
                 events |-> << [name |-> "AgentDeactivated",
                                wallet |-> agents[account].wallet] >>]
    IN [err |-> err,
        out |-> Commit(err, [agents |-> agents, events |-> << >>], post)]

DeactivateAgent ==
    \E signer \in Wallets, account \in Wallets, wallet \in Wallets :
        LET r == DeactivateAgentExec(agent_accounts, now, signer, account, wallet)
        IN /\ agent_accounts' = r.out.agents
           /\ UNCHANGED <<job_records, feedback_records, now, transferred>>

\* ------------------------------------------------------------ register_job

\* A call of register_job: the accounts of RegisterJob, the index argument, and
\* the instructions of the enclosing transaction that the instructions sysvar
\* exposes (index 0 is instructions[1]).
Transfer(program, source, destination, authority, data) ==
    [program_id |-> program, data |-> data,
     accounts |-> <<source, destination, authority>>]

JobCall(client, agent, payment_tx, client_token, agent_token, program, index, ixs) ==
    [client_wallet |-> client,
     agent_wallet |-> agent,
     payment_tx |-> payment_tx,
     client_token_account |-> client_token,
     agent_token_account |-> agent_token,
     token_program |-> program,
     transfer_instruction_index |-> index,
     instructions |-> ixs]

\* Faulty variant: an agent account of any owner is accepted.
AgentAccountAnyOwner(agents, agent_wallet) == OK

\* agent_account: SystemAccount<'info>: the account must be owned by the system
\* program, which an agent account the registry has created no longer is.
AgentSystemAccount(agents, agent_wallet) ==
    IF agent_wallet \in DOMAIN agents THEN "AccountNotSystemOwned" ELSE OK

\* Faulty variant: the address is taken even when occupied (init_if_needed).
JobRecordInitIfNeeded(jobs, payment_tx) == OK

\* #[account(init, seeds = [b"job", payment_tx])]: the address must be unused.
JobRecordInit(jobs, payment_tx) ==
    IF payment_tx \in DOMAIN jobs THEN "AccountAlreadyInUse" ELSE OK

\* The constraints of the token accounts, checked after the init.
TokenAccountConstraints(call) ==
    FirstError(<<
        IF call.client_token_account.owner = call.client_wallet
        THEN OK ELSE "InvalidClientTokenAccount",
        IF call.agent_token_account.owner = call.agent_wallet
        THEN OK ELSE "InvalidAgentTokenAccount" >>)

\* Faulty variant: the amount is read from byte 0 on.
TransferAmountFromOpcode(data) == FromLeBytes(SubSeq(data, 1, 8))

\* let amount_bytes: [u8; 8] = transfer_ix.data[1..9]; u64::from_le_bytes
TransferAmount(data) == FromLeBytes(SubSeq(data, 2, 9))

\* transfer_ix.data.len() >= 9 && transfer_ix.data[0] == 3
IsTransferData(data) == Len(data) >= 9 /\ data[1] = 3

\* Faulty variant: the accounts of the instruction are compared before its
\* program and payload are checked.
VerifyPaymentAccountsFirst(call) ==
    LET client_token == call.client_token_account
        agent_token == call.agent_token_account
        index == call.transfer_instruction_index
        loaded == index < Len(call.instructions)
        transfer_ix == call.instructions[index + 1]
    IN IF client_token.mint # agent_token.mint THEN "TokenMintMismatch"
       ELSE IF client_token.owner # call.client_wallet
            THEN "InvalidClientTokenAccount"
       ELSE IF agent_token.owner # call.agent_wallet
            THEN "InvalidAgentTokenAccount"
       ELSE IF ~loaded THEN "InvalidArgument"
       ELSE IF Len(transfer_ix.accounts) < 3 THEN "InvalidTransferInstruction"
       ELSE IF transfer_ix.accounts[1] # client_token.key
            THEN "TransferSourceMismatch"
       ELSE IF transfer_ix.accounts[2] # agent_token.key
            THEN "TransferDestinationMismatch"
       ELSE IF transfer_ix.accounts[3] # call.client_wallet
            THEN "TransferAuthorityMismatch"
       ELSE IF transfer_ix.program_id # call.token_program
            THEN "InvalidTransferInstruction"
       ELSE IF ~IsTransferData(transfer_ix.data)
            THEN "InvalidTransferInstruction"
       ELSE OK

\* The checks of the handler on the token accounts and the loaded instruction,
\* in the handler's order: the first that fails is the error.
VerifyPayment(call) ==
    LET client_token == call.client_token_account
        agent_token == call.agent_token_account
        index == call.transfer_instruction_index
        loaded == index < Len(call.instructions)
        transfer_ix == call.instructions[index + 1]
    IN IF client_token.mint # agent_token.mint THEN "TokenMintMismatch"
       ELSE IF client_token.owner # call.client_wallet
            THEN "InvalidClientTokenAccount"
       ELSE IF agent_token.owner # call.agent_wallet
            THEN "InvalidAgentTokenAccount"
       ELSE IF ~loaded THEN "InvalidArgument"
       ELSE IF transfer_ix.program_id # call.token_program
            THEN "InvalidTransferInstruction"
       ELSE IF ~IsTransferData(transfer_ix.data)
            THEN "InvalidTransferInstruction"
       ELSE IF Len(transfer_ix.accounts) < 3 THEN "InvalidTransferInstruction"
       ELSE IF transfer_ix.accounts[1] # client_token.key
            THEN "TransferSourceMismatch"
       ELSE IF transfer_ix.accounts[2] # agent_token.key
            THEN "TransferDestinationMismatch"
       ELSE IF transfer_ix.accounts[3] # call.client_wallet
            THEN "TransferAuthorityMismatch"
       ELSE OK

\* Faulty variant: the lazy creation leaves auto_created clear.
LazyAgentAccountUnflagged(agent_wallet, t) ==
    [wallet |-> agent_wallet,
     metadata_uri |-> "",
     created_at |-> t,
     active |-> TRUE,
     auto_created |-> FALSE,
     total_weighted_rating |-> 0,
     total_weight |-> 0,
     avg_rating |-> ZeroF32,
     last_update |-> t]

\* The agent account written by the lazy creation.
LazyAgentAccount(agent_wallet, t) ==
    [wallet |-> agent_wallet,
     metadata_uri |-> "",
     created_at |-> t,
     active |-> TRUE,
     auto_created |-> TRUE,
     total_weighted_rating |-> 0,
     total_weight |-> 0,
     avg_rating |-> ZeroF32,
     last_update |-> t]

\* The job record as `init` leaves it before the handler fills it.
ZeroedJobRecord ==
    [job_id |-> "default", client_wallet |-> "default", agent_wallet |-> "default",
     payment_tx |-> "default", payment_amount |-> 0, created_at |-> 0]

\* register_job as a whole.  create_ok is the result of the create_account CPI
\* of the lazy creation (issued without signer seeds; `?` propagates its error).
RegisterJobExec(agents, jobs, t, call, create_ok) ==
    LET agent == call.agent_wallet
        payment_tx == call.payment_tx
        accounts_err == FirstError(<< AgentSystemAccount(agents, agent),
                                      JobRecordInit(jobs, payment_tx),
                                      TokenAccountConstraints(call) >>)
        initialised == AgentSystemAccount(agents, agent) = OK
                       /\ JobRecordInit(jobs, payment_tx) = OK
        jobs_init == IF initialised THEN (payment_tx :> ZeroedJobRecord) @@ jobs
                     ELSE jobs
        payment_err == IF accounts_err = OK THEN VerifyPayment(call) ELSE OK
        create == accounts_err = OK /\ payment_err = OK /\ agent \notin DOMAIN agents
        create_err == IF create /\ ~create_ok THEN "CreateAccountFailed" ELSE OK
        err == FirstError(<<accounts_err, payment_err, create_err>>)
        payment_amount == TransferAmount(
            call.instructions[call.transfer_instruction_index + 1].data)
        job == [job_id |-> JobAddress(payment_tx),
                client_wallet |-> call.client_wallet,
                agent_wallet |-> agent,
                payment_tx |-> payment_tx,
                payment_amount |-> payment_amount,
                created_at |-> t]
        done == [agents |-> IF create THEN (agent :> LazyAgentAccount(agent, t)) @@ agents
                            ELSE agents,
                 jobs |-> (payment_tx :> job) @@ jobs,
                 events |-> (IF create
                             THEN << [name |-> "AgentAutoCreated", wallet |-> agent] >>
                             ELSE << >>)
                            \o << [name |-> "JobRegistered",
                                   job_id |-> job.job_id,
                                   agent_wallet |-> job.agent_wallet,
                                   client_wallet |-> job.client_wallet,
                                   payment_amount |-> payment_amount] >>]
        aborted == [agents |-> agents, jobs |-> jobs_init, events |-> << >>]
    IN [err |-> err,
        out |-> Commit(err, [agents |-> agents, jobs |-> jobs, events |-> << >>],
                       IF err = OK THEN done ELSE aborted)]

\* The register_job instruction itself, as the instructions sysvar shows it.
RegisterJobIx == [program_id |-> "trustless", data |-> << >>, accounts |-> << >>]

\* The well-formed calls: the client's and the agent's own token accounts of one
\* mint, and a transfer between them signed by the client, at index 0 of a
\* transaction that holds the transfer and the register_job instruction.
HonestCalls(refs, programs, payloads) ==
    { JobCall(x[1], x[2], x[3], x[4], x[5], x[6], 0,
              << Transfer(x[6], x[4].key, x[5].key, x[1], x[7]), RegisterJobIx >>) :
        x \in { y \in Wallets \X Wallets \X refs \X TokenAccounts \X TokenAccounts
                      \X programs \X payloads :
                  /\ y[4].owner = y[1]
                  /\ y[5].owner = y[2]
                  /\ y[4].mint = y[5].mint } }

\* An instruction of another program, as a transaction also carries.
MemoIx == [program_id |-> "Memo", data |-> <<1>>, accounts |-> << >>]

\* The instructions that differ from ix in one field.
IxVariants(ix) ==
    {[ix EXCEPT !.program_id = p] : p \in TokenPrograms}
    \cup {[ix EXCEPT !.data = d] : d \in Payloads}
    \cup {[ix EXCEPT !.accounts[i] = k] : i \in 1 .. 3, k \in Pubkeys}
    \cup {[ix EXCEPT !.accounts = IF ix.accounts = << >> THEN << >>
                               ELSE SubSeq(ix.accounts, 1, Len(ix.accounts) - 1)],
          [ix EXCEPT !.accounts = Append(ix.accounts, "t1")]}

\* The calls that differ from call in one input.
CallVariants(call) ==
    {[call EXCEPT !.client_token_account = t] : t \in TokenAccounts}
    \cup {[call EXCEPT !.agent_token_account = t] : t \in TokenAccounts}
    \cup {[call EXCEPT !.token_program = p] : p \in TokenPrograms}
    \cup {[call EXCEPT !.transfer_instruction_index = i] : i \in 0 .. 2}
    \cup {[call EXCEPT !.instructions[1] = ix] :
             ix \in IxVariants(call.instructions[1])}
    \cup {[call EXCEPT !.instructions = <<MemoIx>> \o call.instructions,
                       !.transfer_instruction_index = i] : i \in 0 .. 1}

\* The calls the invariants range over: every well-formed call, and every call
\* one input away from a well-formed 258-unit transfer on a reference that no
\* run registers.
JobCalls ==
    HonestCalls(Refs, TokenPrograms, TransferPayloads)
    \cup UNION {CallVariants(c) : c \in HonestCalls(Refs \ PaidRefs, {TOKEN}, {Pay258})}

\* JobCalls and the same variants on the references the runs register.
AllJobCalls ==
    JobCalls
    \cup UNION {CallVariants(c) : c \in HonestCalls(PaidRefs, {TOKEN}, {Pay258})}

\* One well-formed call on a reference no run registers, and the calls up to
\* two inputs away from it: calls that violate several checks at once.
BaseCall ==
    JobCall("w1", "w2", "r2", [key |-> "t1", mint |-> "USDC", owner |-> "w1"],
            [key |-> "t2", mint |-> "USDC", owner |-> "w2"], TOKEN, 0,
            << Transfer(TOKEN, "t1", "t2", "w1", Pay258), RegisterJobIx >>)

MultiFaultCalls == UNION {CallVariants(v) : v \in CallVariants(BaseCall)}

\* A call with the outcome of the create_account CPI of its lazy creation: the
\* CPI succeeds, or, for the well-formed calls, fails.
JobAttempts ==
    (JobCalls \X {TRUE})
    \cup (HonestCalls(Refs, TokenPrograms, TransferPayloads) \X {FALSE})

\* The calls of the explored runs: the well-formed ones.  A call that fails
\* changes nothing, so the other calls of JobCalls reach no further state.
RunCalls == HonestCalls(PaidRefs, TokenPrograms, {PayZero, Pay258})

\* The transfer instructions that the register_job instructions of one
\* transaction point at and that pay wallet: each instruction counts once.
TransfersTo(calls, wallet) ==
    { calls[i].transfer_instruction_index :
        i \in { j \in DOMAIN calls : calls[j].agent_wallet = wallet } }

\* transferred once a transaction with these register_job instructions commits.
TransferredAfter(calls) ==
    [w \in Wallets |->
        LET amounts == [i \in TransfersTo(calls, w) |->
                           TransferAmount(calls[1].instructions[i + 1].data)]
        IN transferred[w] + SumOver(DOMAIN amounts, amounts)]

RegisterJob ==
    \E call \in RunCalls, create_ok \in BOOLEAN :
        LET r == RegisterJobExec(agent_accounts, job_records, now, call, create_ok)
        IN /\ agent_accounts' = r.out.agents
           /\ job_records' = r.out.jobs
           /\ transferred' = IF r.err = OK THEN TransferredAfter(<<call>>)
                              ELSE transferred
           /\ UNCHANGED <<feedback_records, now>>

\* Two register_job instructions of one transaction, run in order on the
\* accounts the first one leaves; an error of either aborts the transaction.
RegisterJobBundleExec(agents, jobs, t, first, second, create_ok) ==
    LET r1 == RegisterJobExec(agents, jobs, t, first, create_ok)
        r2 == RegisterJobExec(r1.out.agents, r1.out.jobs, t, second, create_ok)
        err == FirstError(<<r1.err, r2.err>>)
    IN [err |-> err,
        out |-> Commit(err, [agents |-> agents, jobs |-> jobs, events |-> << >>],
                       [agents |-> r2.out.agents, jobs |-> r2.out.jobs,
                        events |-> r1.out.events \o r2.out.events])]

\* The transactions that hold one transfer and two register_job instructions
\* pointing at it, the second on another payment reference.
Bundles ==
    { << [c EXCEPT !.instructions = Append(c.instructions, RegisterJobIx)],
         [c EXCEPT !.instructions = Append(c.instructions, RegisterJobIx),
                   !.payment_tx = p] >> :
        c \in RunCalls, p \in Refs \ PaidRefs }

RegisterJobBundle ==
    \E b \in Bundles, create_ok \in BOOLEAN :
        LET r == RegisterJobBundleExec(agent_accounts, job_records, now,
                                       b[1], b[2], create_ok)
        IN /\ agent_accounts' = r.out.agents
           /\ job_records' = r.out.jobs
           /\ transferred' = IF r.err = OK THEN TransferredAfter(b)
                              ELSE transferred
           /\ UNCHANGED <<feedback_records, now>>

\* --------------------------------------------------------- submit_feedback

\* `job` names the payment reference whose job address the caller passes as
\* job_record; the feedback address is derived from the job id stored there.
\* Account<JobRecord> must hold a job.
JobRecordLoaded(jobs, job) ==
    IF job \in DOMAIN jobs THEN OK ELSE "AccountNotInitialized"

\* Faulty variant: an inactive agent is rejected.
AgentAccountLoadedActive(agents, agent_wallet) ==
    IF agent_wallet \notin DOMAIN agents THEN "AccountNotInitialized"
    ELSE IF ~agents[agent_wallet].active THEN "AgentInactive"
    ELSE OK

\* agent_account: Account<AgentAccount> at seeds [b"agent", job_record.agent_wallet]
\* must hold an agent.
AgentAccountLoaded(agents, agent_wallet) ==
    IF agent_wallet \notin DOMAIN agents THEN "AccountNotInitialized" ELSE OK

\* Faulty variant: the address is taken even when occupied (init_if_needed).
FeedbackRecordInitIfNeeded(feedbacks, job_id) == OK

\* #[account(init, seeds = [b"feedback", job_record.job_id])]
FeedbackRecordInit(feedbacks, job_id) ==
    IF job_id \in DOMAIN feedbacks THEN "AccountAlreadyInUse" ELSE OK

\* Faulty variant: the job account is not tied to the proof of payment.
JobRecordAnySeeds(job, proof_of_payment) == OK

\* job_record: seeds = [b"job", proof_of_payment]
JobRecordSeeds(job, proof_of_payment) ==
    IF job = proof_of_payment THEN OK ELSE "ConstraintSeeds"

\* Faulty variant: the lower end of the range is not checked.
RatingAtMostFive(rating) == rating <= MaxRating

\* require!(rating >= 1 && rating <= 5, ErrorCode::InvalidRating)
RatingInRange(rating) == rating >= MinRating /\ rating <= MaxRating

\* Faulty variant: the rating is added unweighted.
UnweightedRating(rating, payment_amount) == rating

\* rating_value * payment_amount
WeightedRating(rating, payment_amount) == rating * payment_amount

\* Faulty variant: the signer is not compared with the job's client.
FeedbackChecksAnyClient(job_record, client, proof_of_payment, rating) ==
    IF ~RatingInRange(rating) THEN "InvalidRating"
    ELSE IF job_record.payment_tx # proof_of_payment THEN "InvalidProofOfPayment"
    ELSE OK

\* The checks of the handler, in its order.
FeedbackChecks(job_record, client, proof_of_payment, rating) ==
    IF ~RatingInRange(rating) THEN "InvalidRating"
    ELSE IF job_record.client_wallet # client THEN "UnauthorizedClient"
    ELSE IF job_record.payment_tx # proof_of_payment THEN "InvalidProofOfPayment"
    ELSE OK

SubmitFeedbackExec(agents, jobs, feedbacks, t, client, job, proof_of_payment, rating, comment_uri) ==
    LET loaded == JobRecordLoaded(jobs, job)
        job_record == jobs[job]
        agent == job_record.agent_wallet
        agent_err == IF loaded = OK THEN AgentAccountLoaded(agents, agent) ELSE OK
        init_err == IF loaded = OK
                    THEN FeedbackRecordInit(feedbacks, job_record.job_id) ELSE OK
        accounts_err == FirstError(<<loaded, agent_err, init_err,
                                     JobRecordSeeds(job, proof_of_payment)>>)
        handler_err == IF accounts_err = OK
                       THEN FeedbackChecks(job_record, client, proof_of_payment, rating)
                       ELSE OK
        err == FirstError(<<accounts_err, handler_err>>)
        feedback == [feedback_id |-> <<"feedback", job_record.job_id>>,
                     job_id |-> job_record.job_id,
                     client_wallet |-> client,
                     agent_wallet |-> agent,
                     rating |-> rating,
                     comment_uri |-> comment_uri,
                     proof_of_payment |-> proof_of_payment,
                     payment_amount |-> job_record.payment_amount,
                     timestamp |-> t]
        total_weighted_rating == agents[agent].total_weighted_rating
                                 + WeightedRating(rating, job_record.payment_amount)
        total_weight == agents[agent].total_weight + job_record.payment_amount
        avg_rating == AvgRating(total_weighted_rating, total_weight)
        done == [agents |-> [agents EXCEPT
                                ![agent].total_weighted_rating = total_weighted_rating,
                                ![agent].total_weight = total_weight,
                                ![agent].avg_rating = avg_rating,
                                ![agent].last_update = t],
                 feedbacks |-> (job_record.job_id :> feedback) @@ feedbacks,
                 events |-> << [name |-> "FeedbackSubmitted",
                                job_id |-> job_record.job_id,
                                client_wallet |-> client,
                                agent_wallet |-> agent,
                                rating |-> rating,
                                payment_amount |-> job_record.payment_amount],
                               [name |-> "ReputationUpdated",
                                agent_wallet |-> agents[agent].wallet,
                                new_avg_rating |-> avg_rating] >>]
        pre == [agents |-> agents, feedbacks |-> feedbacks, events |-> << >>]
    IN [err |-> err,
        out |-> Commit(err, pre, IF err = OK THEN done ELSE pre)]

SubmitFeedback ==
    \E client \in Wallets, job \in Refs, proof_of_payment \in Refs,
       rating \in Ratings, comment_uri \in CommentUris :
        LET r == SubmitFeedbackExec(agent_accounts, job_records, feedback_records,
                                    now, client, job, proof_of_payment, rating,
                                    comment_uri)
        IN /\ agent_accounts' = r.out.agents
           /\ feedback_records' = r.out.feedbacks
           /\ UNCHANGED <<job_records, now, transferred>>

Next ==
    \/ Tick
    \/ RegisterAgent
    \/ UpdateAgent
    \/ DeactivateAgent
    \/ RegisterJob
    \/ RegisterJobBundle
    \/ SubmitFeedback

Spec == Init /\ [][Next]_vars
\* ------------------------------------------------------- the next outcome

\* What each instruction would do in the current state.
RegisterAgentNow(signer, metadata_uri) ==
    RegisterAgentExec(agent_accounts, now, signer, metadata_uri)

RegisterJobNow(call, create_ok) ==
    RegisterJobExec(agent_accounts, job_records, now, call, create_ok)

SubmitFeedbackNow(client, job, proof_of_payment, rating, comment_uri) ==
    SubmitFeedbackExec(agent_accounts, job_records, feedback_records, now,
                       client, job, proof_of_payment, rating, comment_uri)

\* The feedback calls the invariants range over.
FeedbackCalls == Wallets \X Refs \X Refs \X AllRatings \X CommentUris

SubmitFeedbackCall(f) == SubmitFeedbackNow(f[1], f[2], f[3], f[4], f[5])

\* Every record present before a step is present, unchanged, after it.
Kept(records, records_after) ==
    \A k \in DOMAIN records :
        k \in DOMAIN records_after /\ records_after[k] = records[k]

\* ------------------------------------------------------------------ claims

\* C1: a register_job whose payment reference already has a JobRecord fails,
\* whatever client, agent or transfer it carries, and no step of any
\* instruction changes or removes an existing JobRecord.
C1_JobCollision ==
    /\ [](\A call \in AllJobCalls, create_ok \in BOOLEAN :
            call.payment_tx \in DOMAIN job_records
            => LET r == RegisterJobNow(call, create_ok)
               IN r.err # OK /\ r.out.jobs = job_records)
    /\ [][Kept(job_records, job_records')]_vars

\* A job exists and a well-formed call of another client, for another agent
\* that has no account and with another amount, names the same reference.
C1_Witness ==
    \E call \in JobCalls :
        /\ call.payment_tx \in DOMAIN job_records
        /\ call.client_wallet # job_records[call.payment_tx].client_wallet
        /\ call.agent_wallet # job_records[call.payment_tx].agent_wallet
        /\ VerifyPayment(call) = OK
        /\ TransferAmount(call.instructions[1].data)
               # job_records[call.payment_tx].payment_amount
        /\ RegisterJobNow(call, TRUE).err = "AccountAlreadyInUse"

\* C2: a submit_feedback for a job that already has a FeedbackRecord fails and
\* changes neither the agent accounts (the aggregates) nor the feedback
\* records, and no step changes or removes an existing FeedbackRecord.
C2_FeedbackCollision ==
    /\ [](\A f \in FeedbackCalls :
            (f[2] \in DOMAIN job_records
             /\ job_records[f[2]].job_id \in DOMAIN feedback_records)
            => LET r == SubmitFeedbackCall(f)
               IN /\ r.err # OK
                  /\ r.out.agents = agent_accounts
                  /\ r.out.feedbacks = feedback_records)
    /\ [][Kept(feedback_records, feedback_records')]_vars

\* A job has its feedback, its agent a weight, and the job's client submits a
\* valid rating for it again.
C2_Witness ==
    \E f \in FeedbackCalls :
        /\ f[2] \in DOMAIN job_records
        /\ job_records[f[2]].job_id \in DOMAIN feedback_records
        /\ f[1] = job_records[f[2]].client_wallet
        /\ f[3] = f[2]
        /\ RatingInRange(f[4])
        /\ agent_accounts[job_records[f[2]].agent_wallet].total_weight > 0
        /\ SubmitFeedbackCall(f).err = "AccountAlreadyInUse"

\* C3: register_agent for an identity that already has an AgentRecord fails
\* and leaves every agent account as it was, and no step removes an agent
\* account or changes its identity, creation time or auto_created flag.
C3_AgentCollision ==
    /\ [](\A signer \in Wallets, metadata_uri \in RegisterUris \cup UpdateUris :
            signer \in DOMAIN agent_accounts
            => LET r == RegisterAgentNow(signer, metadata_uri)
               IN r.err # OK /\ r.out.agents = agent_accounts)
    /\ [][\A a \in DOMAIN agent_accounts :
            /\ a \in DOMAIN agent_accounts'
            /\ agent_accounts'[a].wallet = agent_accounts[a].wallet
            /\ agent_accounts'[a].created_at = agent_accounts[a].created_at
            /\ agent_accounts'[a].auto_created = agent_accounts[a].auto_created]_vars

\* An explicitly registered agent and an auto-created one that has been
\* rated, updated and deactivated: register_agent fails for both.
C3_Witness ==
    \E a \in DOMAIN agent_accounts, b \in DOMAIN agent_accounts :
        /\ agent_accounts[a].auto_created
        /\ agent_accounts[a].total_weight > 0
        /\ ~agent_accounts[a].active
        /\ agent_accounts[a].metadata_uri # ""
        /\ ~agent_accounts[b].auto_created
        /\ \A m \in RegisterUris :
              /\ RegisterAgentNow(a, m).err = "AccountAlreadyInUse"
              /\ RegisterAgentNow(b, m).err = "AccountAlreadyInUse"

FeedbackOf(agent) ==
    {k \in DOMAIN feedback_records : feedback_records[k].agent_wallet = agent}

RatingTimesAmount ==
    [k \in DOMAIN feedback_records |->
        feedback_records[k].rating * feedback_records[k].payment_amount]

AmountOf ==
    [k \in DOMAIN feedback_records |-> feedback_records[k].payment_amount]

\* C4: in every reachable state, for every agent, total_weighted_rating is the
\* sum of rating * payment_amount over the agent's FeedbackRecords and
\* total_weight the sum of their payment_amount.
C4_AggregatesAreSums ==
    \A a \in DOMAIN agent_accounts :
        /\ agent_accounts[a].total_weighted_rating
               = SumOver(FeedbackOf(a), RatingTimesAmount)
        /\ agent_accounts[a].total_weight
               = SumOver(FeedbackOf(a), AmountOf)

\* An agent rated 5 for a 258-unit job beside an agent that was not rated.
C4_Witness ==
    \E a \in DOMAIN agent_accounts, b \in DOMAIN agent_accounts :
        /\ agent_accounts[a].total_weight = 258
        /\ agent_accounts[a].total_weighted_rating = 5 * 258
        /\ FeedbackOf(a) # {}
        /\ agent_accounts[b].total_weight = 0
        /\ FeedbackOf(b) = {}

\* C5: in every reachable state every agent account has avg_rating equal to
\* total_weighted_rating / total_weight when total_weight > 0, and equal to
\* 0.0 when total_weight = 0, also after feedback on a job of amount 0.
C5_AvgRatingInvariant ==
    \A a \in DOMAIN agent_accounts :
        LET account == agent_accounts[a]
        IN IF account.total_weight > 0
           THEN /\ account.avg_rating.den > 0
                /\ account.avg_rating.num * account.total_weight
                       = account.total_weighted_rating * account.avg_rating.den
           ELSE account.avg_rating = ZeroF32

\* Whether the submit_feedback call f passes the account validation: the job
\* exists at the address derived from the proof, and has no feedback yet.
FeedbackAccountsValid(f) ==
    /\ f[2] \in DOMAIN job_records
    /\ f[3] = f[2]
    /\ job_records[f[2]].job_id \notin DOMAIN feedback_records

LittleEndian8(data) ==
    data[2] + 256 * (data[3] + 256 * (data[4] + 256 * (data[5]
        + 256 * (data[6] + 256 * (data[7] + 256 * (data[8] + 256 * data[9]))))))

\* C7: whenever register_job succeeds, the instruction at the given index
\* targets the supplied token program, carries at least 9 bytes starting with
\* 3, declares at least 3 accounts (client token account, agent token account,
\* signing client), the token accounts share a mint and belong to the client
\* and the agent, and the stored payment_amount is the little-endian value of
\* payload bytes 1..9.
C7_VerifiedTransfer ==
    \A attempt \in JobAttempts :
        LET call == attempt[1]
            r == RegisterJobNow(call, attempt[2])
            index == call.transfer_instruction_index
            ix == call.instructions[index + 1]
        IN r.err = OK
           => /\ index + 1 \in 1 .. Len(call.instructions)
              /\ ix.program_id = call.token_program
              /\ Len(ix.data) >= 9
              /\ ix.data[1] = 3
              /\ Len(ix.accounts) >= 3
              /\ ix.accounts[1] = call.client_token_account.key
              /\ ix.accounts[2] = call.agent_token_account.key
              /\ ix.accounts[3] = call.client_wallet
              /\ call.client_token_account.mint = call.agent_token_account.mint
              /\ call.client_token_account.owner = call.client_wallet
              /\ call.agent_token_account.owner = call.agent_wallet
              /\ call.payment_tx \in DOMAIN r.out.jobs
              /\ r.out.jobs[call.payment_tx].payment_amount = LittleEndian8(ix.data)
              /\ r.out.events[Len(r.out.events)].payment_amount
                     = LittleEndian8(ix.data)

\* A job registered from a 258-unit transfer, while a call with a longer
\* payload, and one behind a memo instruction at index 1, would succeed next.
C7_Witness ==
    /\ \E k \in DOMAIN job_records :
          /\ job_records[k].payment_amount = 258
          /\ job_records[k].created_at = now
    /\ \E call \in JobCalls :
          /\ RegisterJobNow(call, TRUE).err = OK
          /\ Len(call.instructions[1].data) > 9
    /\ \E call \in JobCalls :
          /\ RegisterJobNow(call, TRUE).err = OK
          /\ call.transfer_instruction_index = 1

\* C8: a register_job naming an agent that already has an agent account, with
\* a well-formed transfer and an unused payment reference, succeeds: it
\* creates the job record with the client, agent and amount, and leaves the
\* agent accounts as they were.
C8_ExistingAgentJobSucceeds ==
    \A call \in HonestCalls(Refs, TokenPrograms, TransferPayloads) :
        (call.agent_wallet \in DOMAIN agent_accounts
         /\ call.payment_tx \notin DOMAIN job_records)
        => LET r == RegisterJobNow(call, TRUE)
           IN /\ r.err = OK
              /\ r.out.agents = agent_accounts
              /\ call.payment_tx \in DOMAIN r.out.jobs
              /\ r.out.jobs[call.payment_tx].client_wallet = call.client_wallet
              /\ r.out.jobs[call.payment_tx].agent_wallet = call.agent_wallet
              /\ r.out.jobs[call.payment_tx].payment_amount
                     = LittleEndian8(call.instructions[1].data)

\* The names of the events of a sequence.
EventNames(events) == [i \in 1 .. Len(events) |-> events[i].name]

\* C9: a successful register_job for an agent without an agent account
\* creates one with the agent's identity, auto_created and active set, empty
\* metadata and zero aggregates, and emits AgentAutoCreated then
\* JobRegistered; a register_job for an agent that has an account emits no
\* AgentAutoCreated.  An account created by register_agent has auto_created
\* clear, an account that appears in a step has it set exactly when the step
\* registers a job for that agent, and no step changes it.
C9_LazyCreation ==
    /\ [](\A attempt \in JobAttempts :
            LET call == attempt[1]
                r == RegisterJobNow(call, attempt[2])
                a == call.agent_wallet
            IN /\ (r.err = OK /\ a \notin DOMAIN agent_accounts)
                  => /\ DOMAIN r.out.agents = DOMAIN agent_accounts \cup {a}
                     /\ r.out.agents[a].wallet = a
                     /\ r.out.agents[a].auto_created = TRUE
                     /\ r.out.agents[a].active = TRUE
                     /\ r.out.agents[a].metadata_uri = ""
                     /\ r.out.agents[a].total_weighted_rating = 0
                     /\ r.out.agents[a].total_weight = 0
                     /\ r.out.agents[a].avg_rating = ZeroF32
                     /\ \A b \in DOMAIN agent_accounts :
                            r.out.agents[b] = agent_accounts[b]
                     /\ EventNames(r.out.events)
                            = <<"AgentAutoCreated", "JobRegistered">>
                     /\ r.out.events[1].wallet = a
               /\ a \in DOMAIN agent_accounts
                  => \A i \in 1 .. Len(r.out.events) :
                         r.out.events[i].name # "AgentAutoCreated")
    /\ [](\A signer \in Wallets, metadata_uri \in RegisterUris :
            LET r == RegisterAgentNow(signer, metadata_uri)
            IN r.err = OK => r.out.agents[signer].auto_created = FALSE)
    /\ [][\A a \in DOMAIN agent_accounts' :
            IF a \in DOMAIN agent_accounts
            THEN agent_accounts'[a].auto_created = agent_accounts[a].auto_created
            ELSE agent_accounts'[a].auto_created
                     = (\E k \in DOMAIN job_records' \ DOMAIN job_records :
                            job_records'[k].agent_wallet = a)]_vars

\* A register_job has created an agent account, with the job, beside an
\* explicitly registered one.
C9_Witness ==
    \E a \in DOMAIN agent_accounts, b \in DOMAIN agent_accounts :
        /\ agent_accounts[a].auto_created
        /\ agent_accounts[a].created_at = now
        /\ \E k \in DOMAIN job_records :
              /\ job_records[k].agent_wallet = a
              /\ job_records[k].created_at = now
        /\ ~agent_accounts[b].auto_created
        /\ agent_accounts[b].created_at < now

\* The errors register_job produces in the current state.
JobErrors == {RegisterJobNow(call, TRUE).err : call \in JobCalls}

C11_UnauthorizedClient ==
    /\ \A f \in FeedbackCalls :
          (FeedbackAccountsValid(f)
           /\ f[4] \in MinRating .. MaxRating
           /\ f[1] # job_records[f[2]].client_wallet)
          => LET r == SubmitFeedbackCall(f)
             IN /\ r.err = "UnauthorizedClient"
                /\ r.out.feedbacks = feedback_records
                /\ r.out.agents = agent_accounts
                /\ r.out.events = << >>
    /\ \A r \in DOMAIN job_records :
          job_records[r].job_id \in DOMAIN feedback_records
          => feedback_records[job_records[r].job_id].client_wallet
                 = job_records[r].client_wallet

\* A paid job without feedback whose agent, who is not its client, submits
\* the best rating for it.
C11_Witness ==
    \E f \in FeedbackCalls :
        /\ FeedbackAccountsValid(f)
        /\ f[4] = MaxRating
        /\ f[1] = job_records[f[2]].agent_wallet
        /\ f[1] # job_records[f[2]].client_wallet
        /\ job_records[f[2]].payment_amount > 0
        /\ SubmitFeedbackCall(f).err = "UnauthorizedClient"

\* Whether the agent accounts after differ from the accounts at most in the
\* record of signer, which becomes changed.
OnlyChanged(accounts, after, signer, changed) ==
    /\ signer \in DOMAIN accounts
    /\ accounts[signer].wallet = signer
    /\ after = [accounts EXCEPT ![signer] = changed]

\* C12: update_agent and deactivate_agent signed by S fail when S has no agent
\* account, and otherwise change the account of S only: update_agent its
\* metadata and last_update, deactivate_agent its active flag and
\* last_update; a failed call changes nothing.  In every step in which the
\* metadata or the active flag of an account changes, nothing else of the
\* ledger changes but that account's metadata, active flag and last_update.
C12_OwnAccountOnly ==
    /\ [](\A signer \in Wallets, account \in Wallets, wallet \in Wallets,
             metadata_uri \in UpdateUris \cup RegisterUris :
            LET u == UpdateAgentExec(agent_accounts, now, signer, account, wallet,
                                     metadata_uri)
                d == DeactivateAgentExec(agent_accounts, now, signer, account, wallet)
            IN /\ signer \notin DOMAIN agent_accounts => u.err # OK /\ d.err # OK
               /\ u.err # OK => u.out.agents = agent_accounts
               /\ d.err # OK => d.out.agents = agent_accounts
               /\ u.err = OK
                  => OnlyChanged(agent_accounts, u.out.agents, signer,
                                 [agent_accounts[signer] EXCEPT
                                     !.metadata_uri = metadata_uri,
                                     !.last_update = now])
               /\ d.err = OK
                  => OnlyChanged(agent_accounts, d.out.agents, signer,
                                 [agent_accounts[signer] EXCEPT
                                     !.active = FALSE,
                                     !.last_update = now]))
    /\ [][\A k \in DOMAIN agent_accounts :
            (agent_accounts'[k].metadata_uri # agent_accounts[k].metadata_uri
             \/ agent_accounts'[k].active # agent_accounts[k].active)
            => /\ job_records' = job_records
               /\ feedback_records' = feedback_records
               /\ agent_accounts' = [agent_accounts EXCEPT
                     ![k].metadata_uri = agent_accounts'[k].metadata_uri,
                     ![k].active = agent_accounts'[k].active,
                     ![k].last_update = agent_accounts'[k].last_update]]_vars

\* Two agents, one that has updated its metadata and one that has deactivated
\* itself and holds aggregates; the first now tries both operations on the
\* account of the second, with either wallet account.
C12_Witness ==
    \E s \in DOMAIN agent_accounts, k \in DOMAIN agent_accounts :
        /\ s # k
        /\ agent_accounts[s].metadata_uri \in UpdateUris
        /\ agent_accounts[s].active
        /\ ~agent_accounts[k].active
        /\ agent_accounts[k].total_weight > 0
        /\ \A wallet \in Wallets, metadata_uri \in UpdateUris :
              /\ UpdateAgentExec(agent_accounts, now, s, k, wallet,
                                 metadata_uri).err = "ConstraintSeeds"
              /\ DeactivateAgentExec(agent_accounts, now, s, k,
                                     wallet).err = "ConstraintSeeds"

\* C13: an agent account that is inactive stays, and stays inactive, in every
\* step of every instruction.
C13_DeactivationPermanent ==
    [][\A a \in DOMAIN agent_accounts :
          ~agent_accounts[a].active
          => a \in DOMAIN agent_accounts' /\ ~agent_accounts'[a].active]_vars

\* An inactive agent that has been updated and rated, at a time after its
\* creation: its owner can neither register again nor be given a job, and
\* deactivating once more succeeds.
C13_Witness ==
    \E a \in DOMAIN agent_accounts :
        /\ ~agent_accounts[a].active
        /\ agent_accounts[a].metadata_uri \in UpdateUris
        /\ agent_accounts[a].total_weight > 0
        /\ agent_accounts[a].last_update = now
        /\ now > agent_accounts[a].created_at
        /\ \A m \in RegisterUris : RegisterAgentNow(a, m).err # OK
        /\ \A attempt \in JobAttempts :
              attempt[1].agent_wallet = a
              => RegisterJobNow(attempt[1], attempt[2]).err # OK
        /\ DeactivateAgentExec(agent_accounts, now, a, a, a).err = OK

\* The agent accounts with the active flag of agent a inverted.
WithActiveFlipped(a) ==
    [agent_accounts EXCEPT ![a].active = ~agent_accounts[a].active]

\* Whether two maps of agent accounts agree on everything but the active flags.
SameButActive(accounts, others) ==
    /\ DOMAIN accounts = DOMAIN others
    /\ \A b \in DOMAIN accounts :
          [accounts[b] EXCEPT !.active = TRUE] = [others[b] EXCEPT !.active = TRUE]

\* C14: register_job and submit_feedback do not read the active flag: with
\* the flag of an agent inverted, every submit_feedback and every register_job
\* naming that agent has the same result,
\* writes the same job record or feedback record and the same aggregates, and
\* leaves the flag as it finds it.
C14_ActiveNotConsulted ==
    [](\A a \in DOMAIN agent_accounts :
        LET flipped == WithActiveFlipped(a)
        IN /\ \A f \in FeedbackCalls :
                 LET r == SubmitFeedbackCall(f)
                     q == SubmitFeedbackExec(flipped, job_records, feedback_records,
                                             now, f[1], f[2], f[3], f[4], f[5])
                 IN /\ q.err = r.err
                    /\ q.out.feedbacks = r.out.feedbacks
                    /\ q.out.events = r.out.events
                    /\ SameButActive(q.out.agents, r.out.agents)
                    /\ q.out.agents[a].active = flipped[a].active
                    /\ r.out.agents[a].active = agent_accounts[a].active
           /\ \A attempt \in {x \in JobAttempts : x[1].agent_wallet = a} :
                 LET r == RegisterJobNow(attempt[1], attempt[2])
                     q == RegisterJobExec(flipped, job_records, now,
                                          attempt[1], attempt[2])
                 IN /\ q.err = r.err
                    /\ q.out.jobs = r.out.jobs
                    /\ q.out.events = r.out.events
                    /\ SameButActive(q.out.agents, r.out.agents))

\* An inactive agent with a paid job that its client may now rate: the
\* feedback succeeds and adds the job's weight to the inactive agent.
C14_Witness ==
    \E f \in FeedbackCalls :
        /\ FeedbackAccountsValid(f)
        /\ ~agent_accounts[job_records[f[2]].agent_wallet].active
        /\ job_records[f[2]].payment_amount > 0
        /\ SubmitFeedbackCall(f).err = OK
        /\ SubmitFeedbackCall(f).out.agents[job_records[f[2]].agent_wallet].total_weight
               = job_records[f[2]].payment_amount

\* C15: in every step every job record and every feedback record present
\* before is present with the same fields after, and no agent account is
\* removed; a step that writes a feedback record leaves the job records as
\* they were.
C15_WriteOnce ==
    /\ [][/\ \A k \in DOMAIN job_records :
                k \in DOMAIN job_records' /\ job_records'[k] = job_records[k]
          /\ \A k \in DOMAIN feedback_records :
                k \in DOMAIN feedback_records'
                /\ feedback_records'[k] = feedback_records[k]
          /\ DOMAIN agent_accounts \subseteq DOMAIN agent_accounts']_vars
    /\ [][feedback_records' # feedback_records => job_records' = job_records]_vars

\* A job with its feedback, both written at an earlier time, after which the
\* agent has updated and deactivated its account.
C15_Witness ==
    \E r \in DOMAIN job_records :
        LET job == job_records[r]
        IN /\ job.job_id \in DOMAIN feedback_records
           /\ job.created_at < now
           /\ feedback_records[job.job_id].timestamp < now
           /\ agent_accounts[job.agent_wallet].last_update = now
           /\ ~agent_accounts[job.agent_wallet].active
           /\ agent_accounts[job.agent_wallet].metadata_uri \in UpdateUris

\* The instruction a call points at, when the transaction has one there.
PointsAtInstruction(call) ==
    call.transfer_instruction_index + 1 \in 1 .. Len(call.instructions)

PointedInstruction(call) == call.instructions[call.transfer_instruction_index + 1]

\* The checks of register_job in the documented order, each with its error
\* and whether the call violates it.
DocumentedChecks(call) ==
    LET at == PointsAtInstruction(call)
        ix == PointedInstruction(call)
        three == at /\ Len(ix.accounts) >= 3
    IN << <<"TokenMintMismatch",
            call.client_token_account.mint # call.agent_token_account.mint>>,
          <<"InvalidClientTokenAccount",
            call.client_token_account.owner # call.client_wallet>>,
          <<"InvalidAgentTokenAccount",
            call.agent_token_account.owner # call.agent_wallet>>,
          <<"InvalidArgument", ~at>>,
          <<"InvalidTransferInstruction", at /\ ix.program_id # call.token_program>>,
          <<"InvalidTransferInstruction",
            at /\ ~(Len(ix.data) >= 9 /\ ix.data[1] = 3)>>,
          <<"InvalidTransferInstruction", at /\ Len(ix.accounts) < 3>>,
          <<"TransferSourceMismatch",
            three /\ ix.accounts[1] # call.client_token_account.key>>,
          <<"TransferDestinationMismatch",
            three /\ ix.accounts[2] # call.agent_token_account.key>>,
          <<"TransferAuthorityMismatch",
            three /\ ix.accounts[3] # call.client_wallet>> >>

\* The error of the first violated check of a sequence, OK when none is.
RECURSIVE FirstViolated(_)
FirstViolated(checks) ==
    IF checks = << >> THEN OK
    ELSE IF Head(checks)[2] THEN Head(checks)[1]
    ELSE FirstViolated(Tail(checks))

\* The errors of the violated checks of a sequence, one per violated check.
Violated(checks) == {i \in 1 .. Len(checks) : checks[i][2]}

TokenAccountErrors ==
    {"TokenMintMismatch", "InvalidClientTokenAccount", "InvalidAgentTokenAccount"}

\* The calls the order of the checks is examined on.
OrderCalls == AllJobCalls \cup MultiFaultCalls

JobsOf(agent) ==
    {r \in DOMAIN job_records : job_records[r].agent_wallet = agent}

PaymentAmountOf == [r \in DOMAIN job_records |-> job_records[r].payment_amount]

C18_InvalidProofUnreachable ==
    /\ \A r \in DOMAIN job_records :
          /\ job_records[r].payment_tx = r
          /\ job_records[r].job_id = JobAddress(r)
    /\ \A f \in FeedbackCalls :
          /\ SubmitFeedbackCall(f).err # "InvalidProofOfPayment"
          /\ (f[2] \in DOMAIN job_records /\ f[3] # f[2])
                => SubmitFeedbackCall(f).err \in {"ConstraintSeeds", "AccountAlreadyInUse"}

\* A job exists, and its client submits a valid rating with the other
\* reference as proof of payment: the call fails on the seeds.
C18_Witness ==
    \E f \in FeedbackCalls :
        /\ f[2] \in DOMAIN job_records
        /\ f[3] # f[2]
        /\ f[1] = job_records[f[2]].client_wallet
        /\ f[4] \in MinRating .. MaxRating
        /\ job_records[f[2]].job_id \notin DOMAIN feedback_records
        /\ SubmitFeedbackCall(f).err = "ConstraintSeeds"

\* C19: every FeedbackRecord has a rating from 1 to 5 and refers to a
\* JobRecord that exists, whose job id, client, agent, payment reference and
\* payment amount are the ones the FeedbackRecord holds, and the agent of the
\* record has an agent account.
C19_FeedbackRefersToJob ==
    \A k \in DOMAIN feedback_records :
        LET fb == feedback_records[k]
        IN /\ fb.rating \in MinRating .. MaxRating
           /\ fb.proof_of_payment \in DOMAIN job_records
           /\ LET job == job_records[fb.proof_of_payment]
              IN /\ job.job_id = fb.job_id
                 /\ job.job_id = k
                 /\ job.client_wallet = fb.client_wallet
                 /\ job.agent_wallet = fb.agent_wallet
                 /\ job.payment_tx = fb.proof_of_payment
                 /\ job.payment_amount = fb.payment_amount
           /\ fb.agent_wallet \in DOMAIN agent_accounts
           /\ agent_accounts[fb.agent_wallet].wallet = fb.agent_wallet

\* A feedback of the highest rating on a 258-unit job stands while its agent is
\* deactivated, and calls of other signers with ratings out of range are
\* refused.
C19_Witness ==
    \E k \in DOMAIN feedback_records :
        /\ feedback_records[k].rating = MaxRating
        /\ feedback_records[k].payment_amount = 258
        /\ feedback_records[k].client_wallet # feedback_records[k].agent_wallet
        /\ ~agent_accounts[feedback_records[k].agent_wallet].active
        /\ \E f \in FeedbackCalls :
              /\ f[1] # feedback_records[k].client_wallet
              /\ f[4] \notin MinRating .. MaxRating
              /\ SubmitFeedbackCall(f).err # OK

\* C20: every agent account has total_weight <= total_weighted_rating
\* <= 5 * total_weight, its average rating lies between 1 and 5 whenever
\* total_weight is positive, and no step lowers either counter.
C20_CountersBounded ==
    /\ [](\A a \in DOMAIN agent_accounts :
            LET account == agent_accounts[a]
            IN /\ account.total_weight <= account.total_weighted_rating
               /\ account.total_weighted_rating <= MaxRating * account.total_weight
               /\ account.total_weight > 0
                     => /\ account.avg_rating.den > 0
                        /\ MinRating * account.avg_rating.den <= account.avg_rating.num
                        /\ account.avg_rating.num <= MaxRating * account.avg_rating.den)
    /\ [][\A a \in DOMAIN agent_accounts :
            /\ a \in DOMAIN agent_accounts'
            /\ agent_accounts'[a].total_weight >= agent_accounts[a].total_weight
            /\ agent_accounts'[a].total_weighted_rating
                  >= agent_accounts[a].total_weighted_rating]_vars

\* An agent rated 5 on a 258-unit job: the upper bound is met, and the agent
\* was updated after the feedback.
C20_Witness ==
    \E a \in DOMAIN agent_accounts :
        /\ agent_accounts[a].total_weight = 258
        /\ agent_accounts[a].total_weighted_rating = MaxRating * 258
        /\ agent_accounts[a].avg_rating = [num |-> MaxRating, den |-> 1]
        /\ agent_accounts[a].metadata_uri \in UpdateUris
====
